---- MODULE Spec2Model ----
(***************************************************************************)
(* Model of the constant-rewrite engine of decode-pyc:                     *)
(*   src/patches/monkey_patch_tgto123.py  (the engine)                     *)
(*   src/run_pyc_patched.py, src/decode_pyc_single.py  (the runners)       *)
(*                                                                         *)
(* Python strings are sequences of one-character strings, so that          *)
(* str.replace and the `in` test are computed on characters.               *)
(* Objects with identity (compiled units, functions, wrappers) live in     *)
(* heaps indexed by their identity.                                        *)
(***************************************************************************)
EXTENDS Integers, Sequences, FiniteSets, TLC

VARIABLES
    value, result, spc,           \* _transform_string: input, output, position
    vi,                           \* sys.version_info of the host, as major*100+minor
    unit, out1, out2,             \* a compiled unit, its rewrite, the rewrite of that
    rebuilds, nextId, rpc,        \* rebuilder calls of the last pass, next fresh identity
    fns, classes, objs, mods,     \* live functions, classes, instances; sys.modules
    sweeps, changedTotal, returned,  \* apply_patch calls so far; changed_total and the
                                  \* value returned by the last one
    lastCall,                     \* the last call made through an entry point
    meta_path, hookCalls, lastSpec,  \* sys.meta_path; the prepend arguments of the
                                  \* install_import_hook calls so far; the last find_spec
    loaded, handled,              \* modules loaded so far; the inputs of the last
                                  \* exec_module or main
    trace, outcome                \* what that run did, in order, and how it ended

strVars == <<value, result, spc>>
rwVars == <<unit, out1, out2, rebuilds, rpc>>
hostVars == <<vi, nextId>>
heapVars == <<fns, classes, objs, mods>>
swVars == <<sweeps, changedTotal, returned, lastCall>>
hookVars == <<meta_path, hookCalls, lastSpec>>
runVars == <<loaded, handled, trace, outcome>>
vars == <<value, result, spc, vi, unit, out1, out2, rebuilds, nextId, rpc, fns, classes, objs, mods, sweeps, changedTotal, returned, lastCall, meta_path, hookCalls, lastSpec, loaded, handled, trace, outcome>>

-----------------------------------------------------------------------------
(* Bounds *)
MaxChunks == 3      \* an input string is a concatenation of at most MaxChunks chunks
MaxEntries == 3     \* a compiled unit holds at most MaxEntries constants, nested ones included
MaxSweeps == 3      \* apply_patch is called at most MaxSweeps times in a run
MaxFinders == 3     \* sys.meta_path holds at most MaxFinders finders of the host
MaxInstalls == 3    \* install_import_hook is called at most MaxInstalls times in a run
MaxPatches == 2     \* _patch_function is called at most MaxPatches times on a function
MaxScans == 3       \* apply_patch_globally and apply_patch_via_gc are called at most
                    \* MaxScans times in a run

-----------------------------------------------------------------------------
(* Character data *)
UrlPrefix == <<"h","t","t","p","s",":","/","/","t",".","m","e","/">>
Slash == <<"/">>
At == <<"@">>
Tgto == <<"t","g","t","o","1","2","3">>
Update == <<"u","p","d","a","t","e">>
OldId == Tgto \o Update
NewId == <<"T","G","1","2","3","C","l","o","u","d">>
Other == <<"x"," ">>

\* _REPLACEMENTS: the ordered (old, new) pairs
\* module names
AppName == <<"a","p","p">>
TelebotName == <<"t","e","l","e","b","o","t">>
MainName == <<"_","_","m","a","i","n","_","_">>
Patches == <<"p","a","t","c","h","e","s">>
EngineName == Patches \o <<".","m","o","n","k","e","y","_","p","a","t","c","h","_">> \o Tgto
Site == <<"s","i","t","e">>
SiteCustomize == Site \o <<"c","u","s","t","o","m","i","z","e">>

\* s.startswith(prefix)
StartsWith(s, prefix) == Len(s) >= Len(prefix) /\ SubSeq(s, 1, Len(prefix)) = prefix

\* a plausible slip: the rule of the bare identifier is left out
ReplacementsUrlAndAt ==
    << <<UrlPrefix \o OldId \o Slash, UrlPrefix \o NewId \o Slash>>,
       <<UrlPrefix \o OldId,          UrlPrefix \o NewId>>,
       <<At \o OldId,                 At \o NewId>> >>

REPLACEMENTS ==
    << <<UrlPrefix \o OldId \o Slash, UrlPrefix \o NewId \o Slash>>,
       <<UrlPrefix \o OldId,          UrlPrefix \o NewId>>,
       <<At \o OldId,                 At \o NewId>>,
       <<OldId,                       NewId>> >>

-----------------------------------------------------------------------------
(* str primitives *)

\* `old in s`
Contains(s, old) ==
    \E i \in 1..(Len(s) - Len(old) + 1) : SubSeq(s, i, i + Len(old) - 1) = old

\* s.replace(old, new): every non-overlapping occurrence, scanning left to right
RECURSIVE Replace(_, _, _)
Replace(s, old, new) ==
    IF Len(s) < Len(old) THEN s
    ELSE IF SubSeq(s, 1, Len(old)) = old
         THEN new \o Replace(SubSeq(s, Len(old) + 1, Len(s)), old, new)
         ELSE <<Head(s)>> \o Replace(Tail(s), old, new)

\* the loop of _transform_string from rule i on, new_value being v
RECURSIVE TransformFrom(_, _)
TransformFrom(v, i) ==
    IF i > Len(REPLACEMENTS) THEN v
    ELSE LET old == REPLACEMENTS[i][1]
             new == REPLACEMENTS[i][2]
         IN TransformFrom(IF Contains(v, old) THEN Replace(v, old, new) ELSE v, i + 1)

\* a plausible slip: stop at the first rule that matched
RECURSIVE TransformFirstMatch(_, _)
TransformFirstMatch(v, i) ==
    IF i > Len(REPLACEMENTS) THEN v
    ELSE LET old == REPLACEMENTS[i][1]
             new == REPLACEMENTS[i][2]
         IN IF Contains(v, old) THEN Replace(v, old, new)
            ELSE TransformFirstMatch(v, i + 1)

TransformStringBreak(v) == TransformFirstMatch(v, 1)

\* _transform_string(value)
TransformString(v) == TransformFrom(v, 1)

-----------------------------------------------------------------------------
(* Python values held in constant pools, defaults and namespaces.           *)
(* Every value is a record of one shape: t its type, s the characters of a  *)
(* str, n the number of an int or float, ref the identity of a compiled     *)
(* unit, sub the items of a tuple or the co_consts of a compiled unit, co   *)
(* the other fields of a compiled unit.                                      *)

NA == 0 - 1      \* a field the host's layout of a compiled unit does not have

\* the fields of a compiled unit other than co_consts are the tuple co, in the
\* order argcount, posonlyargcount, kwonlyargcount, nlocals, stacksize, flags,
\* code, names, varnames, filename, name, qualname, firstlineno, linetable,
\* lnotab, exceptiontable, freevars, cellvars; a value that is no unit has none
NoFields == <<>>

co_argcount(c) == c.co[1]
co_posonlyargcount(c) == c.co[2]
co_kwonlyargcount(c) == c.co[3]
co_nlocals(c) == c.co[4]
co_stacksize(c) == c.co[5]
co_flags(c) == c.co[6]
co_code(c) == c.co[7]
co_names(c) == c.co[8]
co_varnames(c) == c.co[9]
co_filename(c) == c.co[10]
co_name(c) == c.co[11]
co_qualname(c) == c.co[12]
co_firstlineno(c) == c.co[13]
co_linetable(c) == c.co[14]
co_lnotab(c) == c.co[15]
co_exceptiontable(c) == c.co[16]
co_freevars(c) == c.co[17]
co_cellvars(c) == c.co[18]

PyStr(chars) == [t |-> "str", s |-> chars, n |-> 0, ref |-> 0, sub |-> <<>>, co |-> NoFields]
PyInt(k) == [t |-> "int", s |-> <<>>, n |-> k, ref |-> 0, sub |-> <<>>, co |-> NoFields]
PyFloat(k) == [t |-> "float", s |-> <<>>, n |-> k, ref |-> 0, sub |-> <<>>, co |-> NoFields]
PyTuple(items) == [t |-> "tuple", s |-> <<>>, n |-> 0, ref |-> 0, sub |-> items, co |-> NoFields]
PyNone == [t |-> "NoneType", s |-> <<>>, n |-> 0, ref |-> 0, sub |-> <<>>, co |-> NoFields]
\* an instance of a subclass of int whose __eq__ raises
PyRaiser == [t |-> "raiser", s |-> <<>>, n |-> 0, ref |-> 0, sub |-> <<>>, co |-> NoFields]
Code(id, consts, fields) ==
    [t |-> "code", s |-> <<>>, n |-> 0, ref |-> id, sub |-> consts, co |-> fields]

\* isinstance(value, (str, int))
IsStrOrInt(v) == v.t \in {"str", "int"}

\* a plausible slip: the number is compared as text, so the str "47" matches too
TransformConstAsText(v) ==
    IF v.t = "str" /\ v.s # <<"4", "7">> THEN PyStr(TransformString(v.s))
    ELSE IF (v.t = "int" /\ v.n = 47) \/ (v.t = "str" /\ v.s = <<"4", "7">>) THEN PyInt(8)
    ELSE v

\* _transform_const(value)
TransformConst(v) ==
    IF v.t = "str" THEN PyStr(TransformString(v.s))
    ELSE IF v.t = "int" /\ v.n = 47 THEN PyInt(8)
    ELSE v

\* a plausible slip: the number is compared as text, so the str "47" matches too
TransformConstOfAsText(fn, v) ==
    IF v.t = "str" /\ v.s # <<"4", "7">> THEN PyStr(TransformString(v.s))
    ELSE IF (v.t = "int" /\ v.n = fn.code.sub[2].n) \/ (v.t = "str" /\ v.s = <<"4", "7">>)
    THEN fn.code.sub[3]
    ELSE v

\* _transform_const(value) as the function object fn computes it now: the
\* number compared with and the number returned are the second and third
\* constant of fn.__code__, (None, 47, 8) as compiled
TransformConstOf(fn, v) ==
    IF v.t = "str" THEN PyStr(TransformString(v.s))
    ELSE IF v.t = "int" /\ v.n = fn.code.sub[2].n THEN fn.code.sub[3]
    ELSE v

-----------------------------------------------------------------------------
(* types.CodeType(...) of the three layouts, arguments by position *)

CodeType311(argcount, posonlyargcount, kwonlyargcount, nlocals, stacksize, flags, codestring, constants, names, varnames, filename, name, qualname, firstlineno, linetable, exceptiontable, freevars, cellvars) ==
    <<argcount, posonlyargcount, kwonlyargcount, nlocals, stacksize, flags,
      codestring, names, varnames, filename, name, qualname, firstlineno,
      linetable, NA, exceptiontable, freevars, cellvars>>

CodeType38(argcount, posonlyargcount, kwonlyargcount, nlocals, stacksize, flags, codestring, constants, names, varnames, filename, name, firstlineno, lnotab, freevars, cellvars) ==
    <<argcount, posonlyargcount, kwonlyargcount, nlocals, stacksize, flags,
      codestring, names, varnames, filename, name, NA, firstlineno,
      NA, lnotab, NA, freevars, cellvars>>

CodeType37(argcount, kwonlyargcount, nlocals, stacksize, flags, codestring, constants, names, varnames, filename, name, firstlineno, lnotab, freevars, cellvars) ==
    <<argcount, NA, kwonlyargcount, nlocals, stacksize, flags,
      codestring, names, varnames, filename, name, NA, firstlineno,
      NA, lnotab, NA, freevars, cellvars>>

\* hasattr(code, "replace"): code objects have replace() from Python 3.8 on
HasReplace == vi >= 308

\* a plausible slip: co_names and co_varnames change places in the 3.7 layout
RebuildSwapped(code, new_consts, id) ==
    IF HasReplace
    THEN [code EXCEPT !.sub = new_consts, !.ref = id]
    ELSE Code(id, new_consts,
              CodeType37(co_argcount(code), co_kwonlyargcount(code),
                         co_nlocals(code), co_stacksize(code), co_flags(code),
                         co_code(code), new_consts, co_varnames(code),
                         co_names(code), co_filename(code), co_name(code),
                         co_firstlineno(code), co_lnotab(code),
                         co_freevars(code), co_cellvars(code)))

\* a plausible slip: replace() is called without the new constants
RebuildKeepsConsts(code, new_consts, id) == [code EXCEPT !.ref = id]

\* _rebuild_code_with_new_consts(code, new_consts); id is the new object's identity
Rebuild(code, new_consts, id) ==
    IF HasReplace
    THEN [code EXCEPT !.sub = new_consts, !.ref = id]
    ELSE IF vi >= 311
    THEN Code(id, new_consts,
              CodeType311(co_argcount(code), co_posonlyargcount(code),
                          co_kwonlyargcount(code), co_nlocals(code),
                          co_stacksize(code), co_flags(code), co_code(code),
                          new_consts, co_names(code), co_varnames(code),
                          co_filename(code), co_name(code), co_qualname(code),
                          co_firstlineno(code), co_linetable(code),
                          co_exceptiontable(code), co_freevars(code),
                          co_cellvars(code)))
    ELSE IF vi >= 308
    THEN Code(id, new_consts,
              CodeType38(co_argcount(code), co_posonlyargcount(code),
                         co_kwonlyargcount(code), co_nlocals(code),
                         co_stacksize(code), co_flags(code), co_code(code),
                         new_consts, co_names(code), co_varnames(code),
                         co_filename(code), co_name(code),
                         co_firstlineno(code), co_lnotab(code),
                         co_freevars(code), co_cellvars(code)))
    ELSE Code(id, new_consts,
              CodeType37(co_argcount(code), co_kwonlyargcount(code),
                         co_nlocals(code), co_stacksize(code), co_flags(code),
                         co_code(code), new_consts, co_names(code),
                         co_varnames(code), co_filename(code), co_name(code),
                         co_firstlineno(code), co_lnotab(code),
                         co_freevars(code), co_cellvars(code)))

-----------------------------------------------------------------------------
(* _rewrite_code_object_consts(code, transform), transform being the         *)
(* function object of _transform_const.  The result is                       *)
(* [code, next, rebuilds]: the returned unit, the next fresh identity and    *)
(* the number of calls of the rebuilder.  `nested is not const` compares     *)
(* identities (ref).                                                         *)

RECURSIVE RewriteCode(_, _, _)
RECURSIVE RewriteConsts(_, _, _)

\* the for loop over code.co_consts from entry i on
RewriteConsts(consts, i, acc) ==
    IF i > Len(consts) THEN acc
    ELSE LET const == consts[i] IN
         IF IsStrOrInt(const)
         THEN LET new_const == TransformConstOf(acc.transform, const)
              IN RewriteConsts(consts, i + 1,
                     [acc EXCEPT !.changed = @ \/ (new_const # const),
                                 !.list = Append(@, new_const)])
         ELSE IF const.t = "code"
         THEN LET nested == RewriteCode(const, acc.transform, acc.next)
              IN RewriteConsts(consts, i + 1,
                     [changed |-> acc.changed \/ (nested.code.ref # const.ref),
                      list |-> Append(acc.list, nested.code),
                      next |-> nested.next,
                      rebuilds |-> acc.rebuilds + nested.rebuilds,
                      transform |-> acc.transform])
         ELSE RewriteConsts(consts, i + 1, [acc EXCEPT !.list = Append(@, const)])

\* a plausible slip: the `if not changed: return code` shortcut is missing
RewriteCodeAlwaysRebuilds(code, transform, next) ==
    LET walk == RewriteConsts(code.sub, 1,
                    [changed |-> FALSE, list |-> <<>>, next |-> next, rebuilds |-> 0,
                     transform |-> transform])
    IN [code |-> Rebuild(code, walk.list, walk.next),
        next |-> walk.next + 1,
        rebuilds |-> walk.rebuilds + 1]

RewriteCode(code, transform, next) ==
    LET walk == RewriteConsts(code.sub, 1,
                    [changed |-> FALSE, list |-> <<>>, next |-> next, rebuilds |-> 0,
                     transform |-> transform])
    IN IF ~walk.changed
       THEN [code |-> code, next |-> walk.next, rebuilds |-> walk.rebuilds]
       ELSE [code |-> Rebuild(code, walk.list, walk.next),
             next |-> walk.next + 1,
             rebuilds |-> walk.rebuilds + 1]

-----------------------------------------------------------------------------
(* Specification SpecRewrite: the rewriter on bounded compiled units *)

Versions == {307, 308, 311}

\* the fields of the unit with identity id under the host's layout: a
\* different value in every field
FieldsOf(id, v) ==
    << 20 * id + 1,
       IF v >= 308 THEN 20 * id + 2 ELSE NA,
       20 * id + 3, 20 * id + 4, 20 * id + 5, 20 * id + 6, 20 * id + 7,
       20 * id + 8, 20 * id + 9, 20 * id + 10, 20 * id + 11,
       IF v >= 311 THEN 20 * id + 12 ELSE NA,
       20 * id + 13,
       IF v >= 311 THEN 20 * id + 14 ELSE NA,
       IF v < 311 THEN 20 * id + 15 ELSE NA,
       IF v >= 311 THEN 20 * id + 16 ELSE NA,
       20 * id + 17, 20 * id + 18 >>

FortySeven == <<"4", "7">>

\* the function object of _transform_const as the engine defines it
TransformConstFn(v) ==
    [code |-> Code(19, <<PyNone, PyInt(47), PyInt(8)>>, FieldsOf(19, v)),
     defaults |-> <<>>, kwdefaults |-> <<>>, patched |-> FALSE, target |-> PyNone,
     flavor |-> "_transform_const"]

Scalars ==
    {PyStr(At \o OldId), PyStr(FortySeven), PyInt(47), PyInt(8), PyFloat(47),
     PyTuple(<<PyInt(47), PyStr(OldId)>>)}

\* the pools of exactly n constants (nested ones counted) that continue at
\* entry i the pool of the unit with identity pid; the unit nested at entry i
\* has identity pid * (MaxEntries + 1) + i
RECURSIVE Pools(_, _, _, _)
Pools(n, pid, i, v) ==
    IF n = 0 THEN {<<>>}
    ELSE UNION {
           LET id == pid * (MaxEntries + 1) + i
               firsts == IF k = 1
                         THEN Scalars \cup {Code(id, <<>>, FieldsOf(id, v))}
                         ELSE {Code(id, p, FieldsOf(id, v)) : p \in Pools(k - 1, id, 1, v)}
           IN {<<e>> \o rest : e \in firsts, rest \in Pools(n - k, pid, i + 1, v)}
           : k \in 1..n }

Units(v) == UNION {{Code(1, p, FieldsOf(1, v)) : p \in Pools(n, 1, 1, v)} : n \in 0..MaxEntries}

FirstFresh == (MaxEntries + 1) * (MaxEntries + 1) * (MaxEntries + 1) * (MaxEntries + 1) * (MaxEntries + 1)

StrIdle == value = <<>> /\ result = <<>> /\ spc = "idle"
RwIdle ==
    /\ unit = PyNone /\ out1 = PyNone /\ out2 = PyNone
    /\ rebuilds = 0 /\ rpc = "idle"
HostIdle == vi = 311 /\ nextId = 0
HeapIdle == fns = <<>> /\ classes = <<>> /\ objs = <<>> /\ mods = <<>>
SwIdle == sweeps = <<>> /\ changedTotal = 0 /\ returned = PyNone /\ lastCall = <<>>
HookIdle == meta_path = <<>> /\ hookCalls = <<>> /\ lastSpec = <<>>
RunIdle == loaded = {} /\ handled = <<>> /\ trace = <<>> /\ outcome = <<>>

RwInit ==
    /\ vi \in Versions
    /\ unit \in Units(vi)
    /\ out1 = PyNone
    /\ out2 = PyNone
    /\ rebuilds = 0
    /\ nextId = FirstFresh
    /\ rpc = "in"
    /\ StrIdle /\ HeapIdle /\ SwIdle /\ HookIdle /\ RunIdle

\* out1 = _rewrite_code_object_consts(unit, _transform_const)
Rewrite ==
    /\ rpc = "in"
    /\ LET r == RewriteCode(unit, TransformConstFn(vi), nextId)
       IN /\ out1' = r.code
          /\ nextId' = r.next
          /\ rebuilds' = r.rebuilds
    /\ rpc' = "once"
    /\ UNCHANGED <<vi, unit, out2>>
    /\ UNCHANGED <<strVars, heapVars, swVars, hookVars, runVars>>

\* out2 = _rewrite_code_object_consts(out1, _transform_const)
RewriteAgain ==
    /\ rpc = "once"
    /\ LET r == RewriteCode(out1, TransformConstFn(vi), nextId)
       IN /\ out2' = r.code
          /\ nextId' = r.next
          /\ rebuilds' = r.rebuilds
    /\ rpc' = "twice"
    /\ UNCHANGED <<vi, unit, out1>>
    /\ UNCHANGED <<strVars, heapVars, swVars, hookVars, runVars>>

RwNext == Rewrite \/ RewriteAgain

SpecRewrite == RwInit /\ [][RwNext]_vars

-----------------------------------------------------------------------------
(* Claims about the rewriter (SpecRewrite) *)

\* some constant of the transitive pool of code is changed by _transform_const
RECURSIVE AnyChanging(_)
AnyChanging(code) ==
    \E i \in 1..Len(code.sub) :
        IF code.sub[i].t = "code" THEN AnyChanging(code.sub[i])
        ELSE TransformConst(code.sub[i]) # code.sub[i]

\* C1: rewriting the result of a rewrite returns that very object: the second
\* pass changes no constant and calls the rebuilder for no unit.
C1_Idempotent ==
    rpc = "twice" => /\ out2.ref = out1.ref
                     /\ out2 = out1
                     /\ rebuilds = 0

C1_Witness ==
    /\ rpc = "twice"
    /\ out1.ref # unit.ref
    /\ \E i \in 1..Len(unit.sub) :
          /\ unit.sub[i].t = "code"
          /\ out1.sub[i].ref # unit.sub[i].ref
    /\ \E i \in 1..Len(unit.sub) : unit.sub[i].t \in {"tuple", "float"}

\* C2: when _transform_const changes no constant of the transitive pool, the
\* rewrite returns the original object and never calls the rebuilder; a new
\* object is returned only if a scalar of the pool changed or a nested unit
\* was rebuilt.
C2_IdentityPreserved ==
    rpc = "once" =>
        /\ ~AnyChanging(unit) => /\ out1.ref = unit.ref
                                 /\ out1 = unit
                                 /\ rebuilds = 0
        /\ out1.ref # unit.ref =>
              \E i \in 1..Len(unit.sub) :
                  \/ /\ IsStrOrInt(unit.sub[i])
                     /\ TransformConst(unit.sub[i]) # unit.sub[i]
                  \/ /\ unit.sub[i].t = "code"
                     /\ out1.sub[i].ref # unit.sub[i].ref

C2_Witness ==
    /\ rpc = "once"
    /\ ~AnyChanging(unit)
    /\ out1.ref = unit.ref
    /\ \E i \in 1..Len(unit.sub) : unit.sub[i].t = "code" /\ Len(unit.sub[i].sub) > 0
    /\ \E i \in 1..Len(unit.sub) : unit.sub[i].t = "tuple"

\* an int 47 is held by v: v itself, an item of a tuple, or a constant of a
\* (nested) unit
RECURSIVE Holds47(_)
Holds47(v) ==
    \/ v.t = "int" /\ v.n = 47
    \/ v.t \in {"tuple", "code"} /\ \E i \in 1..Len(v.sub) : Holds47(v.sub[i])

\* the str "47" and the float 47.0 are where they were, pool by pool
RECURSIVE TextAndFloatKept(_, _)
TextAndFloatKept(old, new) ==
    /\ Len(new.sub) = Len(old.sub)
    /\ \A i \in 1..Len(old.sub) :
          /\ old.sub[i] \in {PyStr(FortySeven), PyFloat(47)} => new.sub[i] = old.sub[i]
          /\ old.sub[i].t = "code" =>
                new.sub[i].t = "code" /\ TextAndFloatKept(old.sub[i], new.sub[i])

\* C3 as stated: after the rewrite no int 47 is left anywhere in the pool,
\* nested units and tuples held in the pool included, and the str "47" and
\* the float 47.0 are untouched.
C3_AsStated ==
    rpc = "once" => ~Holds47(out1) /\ TextAndFloatKept(unit, out1)

\* an int 47 that is itself an entry of a pool (of the unit or of a nested
\* unit) is 8 in the result; every entry of another type than str, int and
\* unit (float 47.0, a tuple holding 47) and the str "47" are unchanged
RECURSIVE Scoped(_, _)
Scoped(old, new) ==
    /\ Len(new.sub) = Len(old.sub)
    /\ \A i \in 1..Len(old.sub) :
          LET o == old.sub[i]
              w == new.sub[i]
          IN CASE o.t = "int" -> w = (IF o.n = 47 THEN PyInt(8) ELSE o)
               [] o.t = "str" -> o.s = FortySeven => w = o
               [] o.t = "code" -> w.t = "code" /\ Scoped(o, w)
               [] OTHER -> w = o

\* C3 (amended): an int 47 that is an entry of the pool of the unit or of a
\* nested unit becomes 8; an int 47 inside a tuple held in the pool is left as
\* it is, as are the str "47" and the float 47.0.
C3_NumericScoping ==
    rpc = "once" => Scoped(unit, out1)

C3_Witness ==
    /\ rpc = "once"
    /\ \E i \in 1..Len(unit.sub) :
          /\ unit.sub[i].t = "code"
          /\ \E j \in 1..Len(unit.sub[i].sub) : unit.sub[i].sub[j] = PyInt(47)
    /\ \E i \in 1..Len(unit.sub) : unit.sub[i].t = "tuple" /\ Holds47(out1.sub[i])

\* every rebuilt unit has a pool as long as the original's and the original's
\* other fields; entries that are no str, int or unit are carried over
RECURSIVE Preserved(_, _)
Preserved(old, new) ==
    IF new.ref = old.ref THEN new = old
    ELSE /\ new.t = "code"
         /\ Len(new.sub) = Len(old.sub)
         /\ new.co = old.co
         /\ \A i \in 1..Len(old.sub) :
               LET o == old.sub[i]
                   w == new.sub[i]
               IN CASE o.t = "code" -> Preserved(o, w)
                    [] o.t \in {"str", "int"} -> w.t = o.t
                    [] OTHER -> w = o

\* C4: a unit rebuilt because a constant changed has a pool of the original's
\* length and the original's value in every field other than the pool; pool
\* entries that are no str, int or nested unit are the same at the same place.
C4_FieldsPreserved ==
    rpc = "once" => Preserved(unit, out1)

C4_Witness ==
    /\ rpc = "once"
    /\ ~HasReplace
    /\ out1.ref # unit.ref
    /\ \E i \in 1..Len(unit.sub) : unit.sub[i].t = "code" /\ out1.sub[i].ref # unit.sub[i].ref
    /\ \E i \in 1..Len(unit.sub) : unit.sub[i].t = "tuple"

-----------------------------------------------------------------------------
(* Live objects.  A function is [code, defaults, kwdefaults, patched,       *)
(* target, flavor]: patched is its __patched_tgto123__ attribute, target    *)
(* the callable a sanitizing wrapper closes over, flavor "user" for a       *)
(* function of the program, "wrapper" for the wrapper of apply_patch and    *)
(* "tbwrapper" for the wrapper of _patch_telebot_module, "_transform_const" *)
(* for that function of the engine.  A class is                             *)
(* [name, dict], an instance [cls, dict, writable], a module [name, dict];  *)
(* a dict is the sequence of its <<name, value>> items in insertion order.  *)

Absent == [PyNone EXCEPT !.t = "absent"]
PyFunc(id) == [PyNone EXCEPT !.t = "function", !.ref = id]
PyMethod(fid, oid) == [PyNone EXCEPT !.t = "method", !.ref = fid, !.n = oid]
PyClass(id) == [PyNone EXCEPT !.t = "type", !.ref = id]
PyObj(id) == [PyNone EXCEPT !.t = "object", !.ref = id]
PyStatic(fid) == [PyNone EXCEPT !.t = "staticmethod", !.ref = fid]
PyClassMethod(fid) == [PyNone EXCEPT !.t = "classmethod", !.ref = fid]
PyProp(fget, fset, fdel) == [PyNone EXCEPT !.t = "property", !.sub = <<fget, fset, fdel>>]
PyModule(name) == [PyNone EXCEPT !.t = "module", !.s = name]

Has(d, name) == \E i \in 1..Len(d) : d[i][1] = name
Get(d, name, default) ==
    IF Has(d, name) THEN d[CHOOSE i \in 1..Len(d) : d[i][1] = name][2] ELSE default
Set(d, name, v) ==
    IF Has(d, name)
    THEN [i \in 1..Len(d) |-> IF d[i][1] = name THEN <<name, v>> ELSE d[i]]
    ELSE Append(d, <<name, v>>)

\* the objects of the process as one value
World == [fns |-> fns, classes |-> classes, objs |-> objs, mods |-> mods, next |-> nextId]

\* the function object the global name _transform_const of the engine is
\* bound to
Engine(W) == W.fns[CHOOSE i \in 1..Len(W.fns) : W.fns[i].flavor = "_transform_const"]

\* getattr(v, name) for an instance: the instance dict, then the class, a
\* function of the class being bound to the instance
GetAttr(W, v, name) ==
    IF v.t # "object" THEN Absent
    ELSE LET o == W.objs[v.ref]
             c == Get(W.classes[o.cls].dict, name, Absent)
         IN IF Has(o.dict, name) THEN Get(o.dict, name, Absent)
            ELSE IF c.t = "function" THEN PyMethod(c.ref, v.ref)
            ELSE IF c.t = "staticmethod" THEN PyFunc(c.ref)
            ELSE c

\* getattr(cls, name, None) for a class
ClassAttr(W, cls, name) ==
    IF cls.t # "type" THEN PyNone
    ELSE LET c == Get(W.classes[cls.ref].dict, name, PyNone)
         IN IF c.t = "staticmethod" THEN PyFunc(c.ref) ELSE c

\* callable(v)
Callable(v) == v.t \in {"function", "method", "type"}

\* getattr(v, "__patched_tgto123__", False); a bound method shows the
\* attributes of its function
Marked(W, v) == v.t \in {"function", "method"} /\ W.fns[v.ref].patched

-----------------------------------------------------------------------------
(* _patch_function, _patch_property, _patch_class *)

\* the assignments of _patch_function, given the rewritten code object r and
\* the transformed defaults: [W, changed].  fn.__code__ is assigned first;
\* a default whose comparison with 47 raises ends the call in the except
\* clause, with what was assigned before left assigned
PatchFunctionAssign(W, fid, r, new_defaults, new_kw) ==
    LET fn == W.fns[fid]
        codeChanged == r.code.ref # fn.code.ref
        defRaises == \E i \in DOMAIN fn.defaults : fn.defaults[i] = PyRaiser
        kwRaises == \E i \in DOMAIN fn.kwdefaults : fn.kwdefaults[i] = PyRaiser
        defChanged == Len(fn.defaults) > 0 /\ new_defaults # fn.defaults
        kwChanged == Len(fn.kwdefaults) > 0 /\ new_kw # fn.kwdefaults
    IN [W |-> [W EXCEPT !.fns[fid] =
                       [@ EXCEPT !.code = IF codeChanged THEN r.code ELSE @,
                                 !.defaults = IF ~defRaises /\ defChanged
                                              THEN new_defaults ELSE @,
                                 !.kwdefaults = IF ~defRaises /\ ~kwRaises /\ kwChanged
                                                THEN new_kw ELSE @],
                   !.next = r.next],
        changed |-> ~defRaises /\ ~kwRaises /\ (codeChanged \/ defChanged \/ kwChanged)]

\* _patch_function(fn): [W, changed]
PatchFunction(W, fid) ==
    PatchFunctionAssign(W, fid, RewriteCode(W.fns[fid].code, Engine(W), W.next),
        [i \in 1..Len(W.fns[fid].defaults) |->
           TransformConstOf(Engine(W), W.fns[fid].defaults[i])],
        [i \in 1..Len(W.fns[fid].kwdefaults) |->
           TransformConstOf(Engine(W), W.fns[fid].kwdefaults[i])])

RECURSIVE PatchPropertyFrom(_, _, _, _)

\* changed = _patch_function(accessor) or changed, then the next accessor
PatchPropertyOr(r, prop, i, changed) ==
    PatchPropertyFrom(r.W, prop, i + 1, r.changed \/ changed)

\* the loop of _patch_property over (fget, fset, fdel) from accessor i on
PatchPropertyFrom(W, prop, i, changed) ==
    IF i > Len(prop.sub) THEN [W |-> W, changed |-> changed]
    ELSE IF prop.sub[i].t = "function"
    THEN PatchPropertyOr(PatchFunction(W, prop.sub[i].ref), prop, i, changed)
    ELSE PatchPropertyFrom(W, prop, i + 1, changed)

\* _patch_property(prop): [W, changed]
PatchProperty(W, prop) == PatchPropertyFrom(W, prop, 1, FALSE)

RECURSIVE PatchClassFrom(_, _, _, _)

\* a plausible slip: every member visited is counted, changed or not
PatchClassCountsAll(r, items, i, count) ==
    PatchClassFrom(r.W, items, i + 1, count + 1)

\* if the member changed: count += 1, then the next member
PatchClassCount(r, items, i, count) ==
    PatchClassFrom(r.W, items, i + 1, count + (IF r.changed THEN 1 ELSE 0))

\* the loop of _patch_class over vars(cls).items() from item i on: [W, count]
PatchClassFrom(W, items, i, count) ==
    IF i > Len(items) THEN [W |-> W, count |-> count]
    ELSE IF items[i][2].t \in {"staticmethod", "classmethod", "function"}
    THEN PatchClassCount(PatchFunction(W, items[i][2].ref), items, i, count)
    ELSE IF items[i][2].t = "property"
    THEN PatchClassCount(PatchProperty(W, items[i][2]), items, i, count)
    ELSE PatchClassFrom(W, items, i + 1, count)

\* _patch_class(cls): [W, count]
PatchClass(W, cid) == PatchClassFrom(W, W.classes[cid].dict, 1, 0)

-----------------------------------------------------------------------------
(* The sanitizing wrappers *)

\* the compiled bodies of the two wrapper functions of the engine: they hold
\* no constant a rule matches
WrapperCode == Code(2, <<PyNone>>, FieldsOf(2, vi))
TbWrapperCode == Code(3, <<PyNone>>, FieldsOf(3, vi))

NewWrapper(func, flavor, code) ==
    [code |-> code, defaults |-> <<>>, kwdefaults |-> <<>>, patched |-> TRUE,
     target |-> func, flavor |-> flavor]

\* a plausible slip: the marker is not looked at, every sweep wraps again
WrapCallableAgain(W, func) ==
    IF ~Callable(func) THEN [W |-> W, v |-> func]
    ELSE [W |-> [W EXCEPT !.fns = Append(@, NewWrapper(func, "wrapper", WrapperCode))],
          v |-> PyFunc(Len(W.fns) + 1)]

\* _wrap_callable_string_transform(func): [W, v]
WrapCallable(W, func) ==
    IF ~Callable(func) THEN [W |-> W, v |-> func]
    ELSE IF Marked(W, func) THEN [W |-> W, v |-> func]
    ELSE [W |-> [W EXCEPT !.fns = Append(@, NewWrapper(func, "wrapper", WrapperCode))],
          v |-> PyFunc(Len(W.fns) + 1)]

\* _wrap_method(name) of _patch_telebot_module: [W, changed]
WrapMethod(W, cls, name) ==
    LET meth == ClassAttr(W, cls, name)
    IN IF ~Callable(meth) \/ Marked(W, meth) THEN [W |-> W, changed |-> FALSE]
       ELSE [W |-> [W EXCEPT
                      !.fns = Append(@, NewWrapper(meth, "tbwrapper", TbWrapperCode)),
                      !.classes[cls.ref].dict = Set(@, name, PyFunc(Len(W.fns) + 1))],
             changed |-> TRUE]

\* _patch_telebot_module(telebot_module): [W, changed]
PatchTelebot(W, m) ==
    LET cls == Get(W.mods[m].dict, "TeleBot", PyNone)
    IN IF cls.t = "NoneType" THEN [W |-> W, changed |-> FALSE]
       ELSE LET a == WrapMethod(W, cls, "send_message")
                b == WrapMethod(a.W, cls, "get_chat")
            IN [W |-> b.W, changed |-> a.changed \/ b.changed]

-----------------------------------------------------------------------------
(* apply_patch(module) *)

RECURSIVE PatchItemsFrom(_, _, _, _, _)

\* a function of the module: changed_total += 1 if it changed
PatchItemsFunction(r, items, i, seen_objs, changed_total) ==
    PatchItemsFrom(r.W, items, i + 1, seen_objs,
                   changed_total + (IF r.changed THEN 1 ELSE 0))

\* a class of the module: changed_total += _patch_class(obj)
PatchItemsClass(r, items, i, seen_objs, changed_total) ==
    PatchItemsFrom(r.W, items, i + 1, seen_objs, changed_total + r.count)

\* step 3, the loop over list(vars(module).items()) from item i on:
\* [W, changed_total]
PatchItemsFrom(W, items, i, seen_objs, changed_total) ==
    IF i > Len(items) THEN [W |-> W, changed_total |-> changed_total]
    ELSE IF items[i][2] \in seen_objs
    THEN PatchItemsFrom(W, items, i + 1, seen_objs, changed_total)
    ELSE IF items[i][2].t = "function"
    THEN PatchItemsFunction(PatchFunction(W, items[i][2].ref), items, i,
                            seen_objs \cup {items[i][2]}, changed_total)
    ELSE IF items[i][2].t = "type"
    THEN PatchItemsClass(PatchClass(W, items[i][2].ref), items, i,
                         seen_objs \cup {items[i][2]}, changed_total)
    ELSE PatchItemsFrom(W, items, i + 1, seen_objs \cup {items[i][2]}, changed_total)

\* steps 1 and 2 on the dict of the module: newest_id, then the top-level
\* strings
TopLevel(d) ==
    [i \in 1..Len(d) |->
       IF d[i][1] = "newest_id" THEN <<d[i][1], PyInt(8)>>
       ELSE IF d[i][2].t = "str" THEN <<d[i][1], PyStr(TransformString(d[i][2].s))>>
       ELSE d[i]]

\* step 1 alone: setattr(module, "newest_id", 8) where the attribute exists
ForceNewestId(d) ==
    [i \in 1..Len(d) |-> IF d[i][1] = "newest_id" THEN <<d[i][1], PyInt(8)>> ELSE d[i]]

\* step 3 on the module as steps 1 and 2 left it
PatchItems(W, m) == PatchItemsFrom(W, W.mods[m].dict, 1, {}, 0)

\* setattr(module, "send_message", wrapped)
SetModuleSend(w, m) == [w.W EXCEPT !.mods[m].dict = Set(@, "send_message", w.v)]

\* step 4, the module-level send_message
ModuleSend(W, m) ==
    IF Has(W.mods[m].dict, "send_message")
    THEN SetModuleSend(WrapCallable(W, Get(W.mods[m].dict, "send_message", Absent)), m)
    ELSE W

\* setattr(bot, "send_message", wrapped)
SetBotSend(w, bot) == [w.W EXCEPT !.objs[bot.ref].dict = Set(@, "send_message", w.v)]

\* step 5, bot.send_message; where setattr raises, the wrapper just made is
\* dropped and the error swallowed
BotSend(W, bot) ==
    IF bot.t # "NoneType" /\ GetAttr(W, bot, "send_message").t # "absent"
       /\ W.objs[bot.ref].writable
    THEN SetBotSend(WrapCallable(W, GetAttr(W, bot, "send_message")), bot)
    ELSE W

\* step 6, the telebot library
Telebot(W, m) == IF W.mods[m].name = TelebotName THEN PatchTelebot(W, m).W ELSE W

\* steps 4 to 6 after step 3 gave s: [W, changed_total, ret], ret being the
\* value of the return statement
Finish(s, m) ==
    [W |-> Telebot(BotSend(ModuleSend(s.W, m), Get(s.W.mods[m].dict, "bot", PyNone)), m),
     changed_total |-> s.changed_total,
     ret |-> PyModule(s.W.mods[m].name),
     raised |-> FALSE,
     steps |-> <<1, 2, 3, 4, 5, 6>>]

\* an entry of the log of a run, and how a call ended
Event(ev, ref) == [ev |-> ev, ref |-> ref]
Ended(kind, code) == << [kind |-> kind, code |-> code] >>

\* the TypeError of vars(module) for an object with no attribute dictionary
TypeError == [PyNone EXCEPT !.t = "TypeError"]

\* apply_patch(module) for the module registered as m: [W, changed_total,
\* ret, raised, steps], steps being the steps the call began.  An opaque
\* object has no attribute dictionary: its attributes (dict lists them) are
\* slots, getattr and setattr work and vars raises TypeError.  The loop of
\* step 2 reads vars(module) outside any try, so the error leaves the call
\* there, after step 1
ApplyPatch(W, m) ==
    IF W.mods[m].opaque
    THEN [W |-> [W EXCEPT !.mods[m].dict = ForceNewestId(@)], changed_total |-> 0,
          ret |-> TypeError, raised |-> TRUE, steps |-> <<1, 2>>]
    ELSE Finish(PatchItems([W EXCEPT !.mods[m].dict = TopLevel(@)], m), m)

-----------------------------------------------------------------------------
(* Calls through an entry point.  A user function is called once with the   *)
(* argument it receives; a wrapper rewrites a str argument and calls its    *)
(* target.  [orig, substs, received]: calls of user functions, wrappers     *)
(* passed, the argument the user function received.                         *)

RECURSIVE Invoke(_, _, _)
Invoke(W, v, arg) ==
    IF v.t = "method" THEN Invoke(W, PyFunc(v.ref), arg)
    ELSE IF v.t # "function" THEN [orig |-> 0, substs |-> 0, received |-> arg]
    ELSE LET fn == W.fns[v.ref] IN
         IF fn.flavor = "wrapper"
         THEN LET r == Invoke(W, fn.target,
                              IF arg.t = "str" THEN PyStr(TransformString(arg.s)) ELSE arg)
              IN [r EXCEPT !.substs = @ + 1]
         ELSE IF fn.flavor = "tbwrapper"
         THEN LET r == Invoke(W, fn.target,
                              IF arg.t = "str" THEN TransformConstOf(Engine(W), arg) ELSE arg)
              IN [r EXCEPT !.substs = @ + 1]
         ELSE [orig |-> 1, substs |-> 0, received |-> arg]

\* the number of wrappers between v and the user function
RECURSIVE Depth(_, _)
Depth(W, v) ==
    IF v.t = "method" THEN Depth(W, PyFunc(v.ref))
    ELSE IF v.t = "function" /\ W.fns[v.ref].flavor \in {"wrapper", "tbwrapper"}
         THEN 1 + Depth(W, W.fns[v.ref].target)
    ELSE 0

-----------------------------------------------------------------------------
(* Specification SpecSweep: apply_patch on the modules of a program that    *)
(* uses the telebot library, and calls through the entry points.            *)

UserFn(code, defaults, kwdefaults) ==
    [code |-> code, defaults |-> defaults, kwdefaults |-> kwdefaults,
     patched |-> FALSE, target |-> PyNone, flavor |-> "user"]

UserCode(id, consts, v) == Code(id, consts, FieldsOf(id, v))

\* 1 TeleBot.send_message, 2 TeleBot.get_chat, 3 app.f (also bound as app.g),
\* 4 K.s (static), 5 K.p, 6 the getter of property K.q, 7 app.send_message,
\* 8 _transform_const of the engine
InitFns(v) ==
    << UserFn(UserCode(11, <<PyNone>>, v), <<>>, <<>>),
       UserFn(UserCode(12, <<PyNone, PyInt(47)>>, v), <<PyNone>>, <<>>),
       UserFn(UserCode(13, <<PyStr(At \o OldId), PyInt(47),
                             UserCode(14, <<PyStr(OldId)>>, v)>>, v),
              <<PyStr(OldId), PyFloat(47)>>, <<PyInt(47)>>),
       UserFn(UserCode(15, <<PyStr(OldId)>>, v), <<>>, <<>>),
       UserFn(UserCode(16, <<PyStr(Other)>>, v), <<>>, <<>>),
       UserFn(UserCode(17, <<PyInt(47)>>, v), <<>>, <<>>),
       UserFn(UserCode(18, <<PyNone>>, v), <<>>, <<>>),
       TransformConstFn(v) >>

\* the telebot library: the dict of the module and the dict of its class
Telebots ==
    { [dict |-> <<>>, TeleBot |-> <<>>],
      [dict |-> << <<"TeleBot", PyClass(1)>> >>,
       TeleBot |-> << <<"send_message", PyFunc(1)>>, <<"get_chat", PyFunc(2)>> >>],
      [dict |-> << <<"TeleBot", PyClass(1)>> >>,
       TeleBot |-> << <<"send_message", PyFunc(1)>> >>] }

\* the class of the scenario: a static method returning "tgto123update" and a
\* plain method holding an unrelated string
ScenarioDict == << <<"s", PyStatic(4)>>, <<"p", PyFunc(5)>> >>

RichDict ==
    ScenarioDict \o << <<"q", PyProp(PyFunc(6), PyNone, PyNone)>>,
                       <<"LABEL", PyStr(OldId)>> >>

\* what the program's module holds besides the entry points, with the dict
\* of its class K
Contents ==
    { [dict |-> <<>>, K |-> ScenarioDict],
      [dict |-> << <<"K", PyClass(2)>> >>, K |-> ScenarioDict],
      [dict |-> << <<"newest_id", PyInt(47)>>,
                   <<"TITLE", PyStr(UrlPrefix \o OldId)>>,
                   <<"NOTE", PyStr(FortySeven)>>,
                   <<"f", PyFunc(3)>>, <<"g", PyFunc(3)>>,
                   <<"K", PyClass(2)>> >>,
       K |-> RichDict] }

SendBindings ==
    { <<>>,
      << <<"send_message", PyFunc(7)>> >>,
      << <<"send_message", PyStr(Other)>> >>,
      << <<"send_message", PyMethod(1, 1)>> >> }

\* the binding of bot, and whether the instance accepts new attributes
Bots ==
    { [dict |-> <<>>, writable |-> TRUE],
      [dict |-> << <<"bot", PyNone>> >>, writable |-> TRUE],
      [dict |-> << <<"bot", PyObj(1)>> >>, writable |-> TRUE],
      [dict |-> << <<"bot", PyObj(1)>> >>, writable |-> FALSE] }

ModuleNames == {"app", "telebot"}

SweepInit ==
    /\ vi \in Versions
    /\ nextId = FirstFresh
    /\ fns = InitFns(vi)
    /\ \E c \in Contents, sm \in SendBindings, b \in Bots, t \in Telebots, op \in BOOLEAN :
          /\ op => c.K = RichDict
          /\ classes = << [name |-> "TeleBot", dict |-> t.TeleBot],
                          [name |-> "K", dict |-> c.K] >>
          /\ objs = << [cls |-> 1, dict |-> <<>>, writable |-> b.writable] >>
          /\ mods = [n \in ModuleNames |->
                       IF n = "app" THEN [name |-> AppName, dict |-> c.dict \o sm \o b.dict, opaque |-> op]
                       ELSE [name |-> TelebotName, dict |-> t.dict, opaque |-> FALSE]]
    /\ sweeps = <<>>
    /\ changedTotal = 0
    /\ returned = PyNone
    /\ lastCall = <<>>
    /\ StrIdle /\ RwIdle /\ HookIdle /\ RunIdle

\* ret = apply_patch(sys.modules[m])
Sweep(m) ==
    /\ Len(sweeps) < MaxSweeps
    /\ \E r \in {ApplyPatch(World, m)} :
          /\ fns' = r.W.fns
          /\ classes' = r.W.classes
          /\ objs' = r.W.objs
          /\ mods' = r.W.mods
          /\ nextId' = r.W.next
          /\ changedTotal' = r.changed_total
          /\ returned' = r.ret
          /\ trace' = [i \in DOMAIN r.steps |-> Event("step", r.steps[i])]
    /\ sweeps' = Append(sweeps, m)
    /\ lastCall' = <<>>
    /\ UNCHANGED <<vi, loaded, handled, outcome>>
    /\ UNCHANGED <<strVars, rwVars, hookVars>>

CallArgs == {PyStr(At \o OldId), PyStr(Other), PyInt(47)}

\* the callable an entry point names now
Entry(W, e) ==
    CASE e = "app.send_message" -> Get(W.mods["app"].dict, "send_message", Absent)
      [] e = "bot.send_message" ->
            GetAttr(W, Get(W.mods["app"].dict, "bot", PyNone), "send_message")
      [] e = "TeleBot.send_message" ->
            ClassAttr(W, Get(W.mods["telebot"].dict, "TeleBot", PyNone), "send_message")
      [] e = "TeleBot.get_chat" ->
            ClassAttr(W, Get(W.mods["telebot"].dict, "TeleBot", PyNone), "get_chat")

EntryPoints == {"app.send_message", "bot.send_message", "TeleBot.send_message", "TeleBot.get_chat"}

\* the program calls an entry point with one argument
Call(e, arg) ==
    /\ Callable(Entry(World, e))
    /\ LET r == Invoke(World, Entry(World, e), arg)
       IN lastCall' = << [entry |-> e, arg |-> arg, depth |-> Depth(World, Entry(World, e)),
                          orig |-> r.orig, substs |-> r.substs, received |-> r.received] >>
    /\ UNCHANGED <<sweeps, changedTotal, returned>>
    /\ UNCHANGED <<strVars, rwVars, hostVars, heapVars, hookVars, runVars>>

SweepNext ==
    \/ \E m \in ModuleNames : Sweep(m)
    \/ \E e \in EntryPoints, arg \in CallArgs : Call(e, arg)

SpecSweep == SweepInit /\ [][SweepNext]_vars

-----------------------------------------------------------------------------
(* Claims on the sweep *)

\* apply_patch was called on the module and returned
Swept(m) == ~mods[m].opaque /\ \E i \in 1..Len(sweeps) : sweeps[i] = m

\* the namespace that binds an entry point
Home(e) == IF e \in {"app.send_message", "bot.send_message"} THEN "app" ELSE "telebot"

\* the binding of the entry point can be replaced
Assignable(e) ==
    e = "bot.send_message" =>
        LET bot == Get(mods["app"].dict, "bot", PyNone)
        IN bot.t = "object" /\ objs[bot.ref].writable

\* what a sanitizing wrapper hands on for an argument
Sanitized(arg) == IF arg.t = "str" THEN PyStr(TransformString(arg.s)) ELSE arg

\* C6: Double-wrap prevention.  Whatever sweeps were made, no entry point is
\* more than one wrapper deep; a callable, assignable entry point whose
\* namespace was swept is exactly one marked wrapper deep; a sweep hands an
\* already-marked entry point back as the same object; and one call through
\* an entry point reaches the original callable exactly once, with the
\* argument substituted once per wrapper passed, that is at most once.
C6_WrappedOnce ==
    /\ [](\A e \in EntryPoints :
            LET f == Entry(World, e)
            IN /\ Depth(World, f) <= 1
               /\ Marked(World, f) <=> Depth(World, f) = 1
               /\ (Swept(Home(e)) /\ Callable(f) /\ Assignable(e)) => Depth(World, f) = 1)
    /\ [](lastCall # <<>> =>
            /\ lastCall[1].orig = 1
            /\ lastCall[1].substs = lastCall[1].depth
            /\ lastCall[1].substs <= 1
            /\ lastCall[1].received =
                 IF lastCall[1].substs = 1 THEN Sanitized(lastCall[1].arg)
                 ELSE lastCall[1].arg)
    /\ [][\A e \in EntryPoints :
            Marked(World, Entry(World, e)) => Entry(World, e)' = Entry(World, e)]_vars

\* C6 witness: the program's namespace was swept three times and a call with
\* a matching string went through a once-wrapped entry point
C6_Witness ==
    /\ Len(sweeps) >= 3
    /\ Cardinality({i \in 1..Len(sweeps) : sweeps[i] = "app"}) >= 2
    /\ lastCall # <<>>
    /\ lastCall[1].entry = "bot.send_message"
    /\ lastCall[1].depth = 1
    /\ lastCall[1].arg = PyStr(At \o OldId)
    /\ lastCall[1].received = PyStr(At \o NewId)

\* the namespace of the scenario: the class with the static method returning
\* "tgto123update" and the plain method holding an unrelated string, just
\* after the first sweep of the namespace
ScenarioSwept ==
    /\ ~mods["app"].opaque
    /\ Get(mods["app"].dict, "K", Absent) = PyClass(2)
    /\ ~Has(mods["app"].dict, "f")
    /\ classes[2].dict = ScenarioDict
    /\ Len(sweeps) > 0
    /\ sweeps[Len(sweeps)] = "app"
    /\ Cardinality({i \in 1..Len(sweeps) : sweeps[i] = "app"}) = 1

\* the functions the program's namespace reaches that a sweep has changed
ChangedMembers == {i \in 3..7 : fns[i] # InitFns(vi)[i]}

-----------------------------------------------------------------------------
(* The import hook.  sys.meta_path is a sequence of finders [cls, id]; a     *)
(* spec is [found, loader, wraps], loader "none" for a spec without loader   *)
(* and wraps the loader a _LoaderWrapper was built around.                   *)

Finder(cls) == [cls |-> cls, id |-> 0]
MetaPathPatcher(id) == [cls |-> "_MetaPathPatcher", id |-> id]

\* a plausible slip: only the head of sys.meta_path is looked at
FirstIsPatcher(mp) == Len(mp) > 0 /\ mp[1].cls = "_MetaPathPatcher"

\* the scan of install_import_hook: some finder is a _MetaPathPatcher
HasPatcher(mp) == \E i \in 1..Len(mp) : mp[i].cls = "_MetaPathPatcher"

\* a plausible slip: the hook is never put on sys.meta_path
InstallImportHookNever(mp, prepend, id) == mp

\* install_import_hook(prepend), id being the identity of a patcher it makes
InstallImportHook(mp, prepend, id) ==
    IF HasPatcher(mp) THEN mp
    ELSE IF prepend THEN <<MetaPathPatcher(id)>> \o mp
    ELSE Append(mp, MetaPathPatcher(id))

NoSpec == [found |-> FALSE, loader |-> "none", wraps |-> "none"]
ModuleSpec(loader) == [found |-> TRUE, loader |-> loader, wraps |-> "none"]

\* _MetaPathPatcher.find_spec(fullname, path), spec being what
\* PathFinder.find_spec answers
FindSpecResult(fullname, spec) ==
    IF StartsWith(fullname, Patches) \/ fullname = Site \/ fullname = SiteCustomize
    THEN NoSpec
    ELSE IF spec.found /\ spec.loader # "none" /\ spec.loader # "_LoaderWrapper"
    THEN [spec EXCEPT !.loader = "_LoaderWrapper", !.wraps = spec.loader]
    ELSE NoSpec

-----------------------------------------------------------------------------
(* Specification SpecHook: install_import_hook and find_spec on pipelines    *)
(* that hold no _MetaPathPatcher at first.                                   *)

FinderClasses == {"BuiltinImporter", "FrozenImporter", "PathFinder"}

RECURSIVE MetaPaths(_)
MetaPaths(n) ==
    IF n = 0 THEN {<<>>}
    ELSE MetaPaths(n - 1) \cup
         {<<Finder(c)>> \o p : c \in FinderClasses, p \in {q \in MetaPaths(n - 1) : Len(q) = n - 1}}

FullNames ==
    {AppName, TelebotName, Patches, EngineName, Patches \o <<"2">>, Site, SiteCustomize,
     Site \o <<"s">>}

PathFinderAnswers ==
    {NoSpec, ModuleSpec("none"), ModuleSpec("SourceFileLoader"),
     ModuleSpec("ExtensionFileLoader"), ModuleSpec("_LoaderWrapper")}

HookInit ==
    /\ meta_path \in MetaPaths(MaxFinders)
    /\ hookCalls = <<>>
    /\ lastSpec = <<>>
    /\ StrIdle /\ RwIdle /\ HostIdle /\ HeapIdle /\ SwIdle /\ RunIdle

Install(prepend) ==
    /\ Len(hookCalls) < MaxInstalls
    /\ meta_path' = InstallImportHook(meta_path, prepend, Len(hookCalls) + 1)
    /\ hookCalls' = Append(hookCalls, prepend)
    /\ UNCHANGED lastSpec
    /\ UNCHANGED <<strVars, rwVars, hostVars, heapVars, swVars, runVars>>

\* the import system asks the installed patcher for a module
FindSpec(fullname, spec) ==
    /\ HasPatcher(meta_path)
    /\ lastSpec' = << [fullname |-> fullname, answer |-> spec,
                       result |-> FindSpecResult(fullname, spec)] >>
    /\ UNCHANGED <<meta_path, hookCalls>>
    /\ UNCHANGED <<strVars, rwVars, hostVars, heapVars, swVars, runVars>>

HookNext ==
    \/ \E prepend \in BOOLEAN : Install(prepend)
    \/ \E fullname \in FullNames, spec \in PathFinderAnswers : FindSpec(fullname, spec)

SpecHook == HookInit /\ [][HookNext]_vars

Patchers(mp) == {i \in 1..Len(mp) : mp[i].cls = "_MetaPathPatcher"}

-----------------------------------------------------------------------------
(* Executing a compiled unit.  The body of a unit binds its constants in     *)
(* order: an int as newest_id, a str as TITLE, a nested unit as the function *)
(* handler; a body that raises does so after its first binding.              *)

\* one statement of the body
Bind(W, m, c) ==
    IF c.t = "code"
    THEN [W EXCEPT !.fns = Append(@, UserFn(c, <<>>, <<>>)),
                   !.mods[m].dict = Set(@, "handler", PyFunc(Len(W.fns) + 1))]
    ELSE IF c.t = "int" THEN [W EXCEPT !.mods[m].dict = Set(@, "newest_id", c)]
    ELSE IF c.t = "str" THEN [W EXCEPT !.mods[m].dict = Set(@, "TITLE", c)]
    ELSE W

\* exec(code, module.__dict__), the first n statements
RECURSIVE RunBody(_, _, _, _)
RunBody(W, m, code, n) ==
    IF n = 0 THEN W ELSE Bind(RunBody(W, m, code, n - 1), m, code.sub[n])

\* the statements a body runs: all of them, or the first if it raises
Ran(code, how) == IF how = "ok" THEN Len(code.sub) ELSE IF Len(code.sub) > 0 THEN 1 ELSE 0

-----------------------------------------------------------------------------
(* _LoaderWrapper.exec_module.  The wrapped loader is [get_code, unit]:      *)
(* get_code is "absent", "code", "none" (it answers None) or "raises"; unit  *)
(* the compiled unit it holds.  The body is [rewritten, unmodified]: how the *)
(* execution of either representation ends, "ok", "raises" (an Exception)    *)
(* or "exits" (a BaseException such as SystemExit).                          *)
(* Each operator yields [W, trace, outcome].                                 *)

\* the fallback path: the wrapped loader executes the unit, then apply_patch
\* and, for telebot, _patch_telebot_module
Fallback(W, m, ld, bh, tr) ==
    IF bh.unmodified # "ok"
    THEN [W |-> RunBody(W, m, ld.unit, Ran(ld.unit, bh.unmodified)),
          trace |-> Append(tr, Event("exec_module", ld.unit.ref)),
          outcome |-> Ended("raise", NA)]
    ELSE [W |-> Telebot(ApplyPatch(RunBody(W, m, ld.unit, Len(ld.unit.sub)), m).W, m),
          trace |-> tr \o <<Event("exec_module", ld.unit.ref), Event("apply_patch", 0)>>,
          outcome |-> Ended("return", NA)]

\* the try block once get_code answered a code object, r being its rewrite
ExecTransformed(W, m, ld, bh, r) ==
    IF bh.rewritten = "ok"
    THEN [W |-> ApplyPatch(RunBody([W EXCEPT !.next = r.next], m, r.code,
                                   Len(r.code.sub)), m).W,
          trace |-> <<Event("get_code", 0), Event("exec", r.code.ref),
                      Event("apply_patch", 0)>>,
          outcome |-> Ended("return", NA)]
    ELSE IF bh.rewritten = "exits"
    THEN [W |-> RunBody([W EXCEPT !.next = r.next], m, r.code, Ran(r.code, "exits")),
          trace |-> <<Event("get_code", 0), Event("exec", r.code.ref)>>,
          outcome |-> Ended("raise", NA)]
    ELSE Fallback(RunBody([W EXCEPT !.next = r.next], m, r.code, Ran(r.code, "raises")),
                  m, ld, bh, <<Event("get_code", 0), Event("exec", r.code.ref)>>)

\* _LoaderWrapper(ld).exec_module(module), the module being sys.modules[m]
ExecModule(W, m, ld, bh) ==
    IF ld.get_code = "absent" \/ W.mods[m].name = <<>>
    THEN Fallback(W, m, ld, bh, <<>>)
    ELSE IF ld.get_code # "code"
    THEN Fallback(W, m, ld, bh, <<Event("get_code", 0)>>)
    ELSE ExecTransformed(W, m, ld, bh, RewriteCode(ld.unit, Engine(W), W.next))

-----------------------------------------------------------------------------
(* Specification SpecLoad: the modules of the program are imported through   *)
(* the hook, each one once.                                                  *)

\* compiled units of modules: nothing to rewrite; an int, a str and a nested
\* unit to rewrite; one str to rewrite
LoadUnits(v) ==
    { UserCode(21, <<PyStr(Other)>>, v),
      UserCode(22, <<PyInt(47), PyStr(UrlPrefix \o OldId),
                     UserCode(23, <<PyStr(OldId)>>, v)>>, v),
      UserCode(24, <<PyStr(OldId)>>, v),
      UserCode(25, <<PyInt(46)>>, v) }

GetCodeKinds == {"absent", "code", "none", "raises"}

Loaders(v) == [get_code : GetCodeKinds, unit : LoadUnits(v)]

Bodies == [rewritten : {"ok", "raises", "exits"}, unmodified : {"ok", "raises"}]

LoadInit ==
    /\ vi \in Versions
    /\ nextId = FirstFresh
    /\ fns = <<TransformConstFn(vi)>>
    /\ classes = <<>>
    /\ objs = <<>>
    /\ \E app \in {AppName, <<>>} :
          mods = [n \in ModuleNames |->
                    [name |-> IF n = "app" THEN app ELSE TelebotName, dict |-> <<>>, opaque |-> FALSE]]
    /\ loaded = {}
    /\ handled = <<>>
    /\ trace = <<>>
    /\ outcome = <<>>
    /\ StrIdle /\ RwIdle /\ SwIdle /\ HookIdle

\* the import system calls exec_module of the wrapper around ld
Load(m, ld, bh) ==
    /\ m \notin loaded
    /\ loaded' = loaded \cup {m}
    /\ handled' = << [module |-> m, loader |-> ld, body |-> bh] >>
    /\ \E r \in {ExecModule(World, m, ld, bh)} :
          /\ fns' = r.W.fns
          /\ classes' = r.W.classes
          /\ objs' = r.W.objs
          /\ mods' = r.W.mods
          /\ nextId' = r.W.next
          /\ trace' = r.trace
          /\ outcome' = r.outcome
    /\ UNCHANGED vi
    /\ UNCHANGED <<strVars, rwVars, swVars, hookVars>>

LoadNext == \E m \in ModuleNames, ld \in Loaders(vi), bh \in Bodies : Load(m, ld, bh)

SpecLoad == LoadInit /\ [][LoadNext]_vars

\* the wrapped loader of the last load yields a compiled unit
YieldsUnit ==
    /\ handled[1].loader.get_code = "code"
    /\ mods[handled[1].module].name # <<>>

\* the positions of the trace at which the body of the unit was executed
Executions == {i \in 1..Len(trace) : trace[i].ev \in {"exec", "exec_module"}}

\* C10 as stated: a load whose loader yields a compiled unit executes the
\* body exactly once, in its rewritten representation, and sweeps the
\* namespace afterwards; the wrapped loader executes the unit only when no
\* compiled unit could be fetched, never after exec of the rewritten unit
\* began.
C10_RewrittenOnly ==
    handled # <<>> =>
       /\ (YieldsUnit /\ outcome[1].kind = "return") =>
             /\ Cardinality(Executions) = 1
             /\ \A i \in Executions : trace[i].ev = "exec"
             /\ trace[Len(trace)].ev = "apply_patch"
       /\ (\E i \in 1..Len(trace) : trace[i].ev = "exec_module") => ~YieldsUnit
       /\ \A i \in 1..Len(trace) : \A j \in 1..Len(trace) :
             (i < j /\ trace[i].ev = "exec") => trace[j].ev # "exec_module"

-----------------------------------------------------------------------------
(* apply_patch_globally, apply_patch_via_gc and main *)

\* the order of sys.modules
SysModules == <<"__main__", "patches.monkey_patch_tgto123", "plugin", "app", "telebot">>

\* a __name__ that is not a string (None, say): it has no startswith
NotStr == << "None" >>

\* the loop of apply_patch_globally from module i on, own being the prefix of
\* the names it skips: [W, processed, raised].  The test of the name is
\* outside the try, the call of apply_patch inside it
RECURSIVE ApplyPatchGloballyFrom(_, _, _, _)
GloballyCount(r, own, i, processed) ==
    ApplyPatchGloballyFrom(r.W, own, i + 1, IF r.raised THEN processed ELSE processed + 1)

ApplyPatchGloballyFrom(W, own, i, processed) ==
    IF i > Len(SysModules) THEN [W |-> W, processed |-> processed, raised |-> FALSE]
    ELSE IF SysModules[i] \notin DOMAIN W.mods
    THEN ApplyPatchGloballyFrom(W, own, i + 1, processed)
    ELSE IF W.mods[SysModules[i]].name = NotStr
    THEN [W |-> W, processed |-> processed, raised |-> TRUE]
    ELSE IF StartsWith(W.mods[SysModules[i]].name, own)
    THEN ApplyPatchGloballyFrom(W, own, i + 1, processed)
    ELSE GloballyCount(ApplyPatch(W, SysModules[i]), own, i, processed)

\* the tail of apply_patch_globally: telebot, if resident; not reached when
\* the loop raised
TelebotIfResident(r) ==
    IF r.raised THEN r
    ELSE IF "telebot" \in DOMAIN r.W.mods
    THEN [r EXCEPT !.W = PatchTelebot(r.W, "telebot").W] ELSE r

\* apply_patch_globally(): [W, processed]
ApplyPatchGlobally(W, own) == TelebotIfResident(ApplyPatchGloballyFrom(W, own, 1, 0))

\* gc.get_objects(), the function objects among them: the order is the
\* collector's, here the oldest or the youngest first
GcOrders == {"oldest first", "youngest first"}
GetObjects(W, order) ==
    [i \in 1..Len(W.fns) |-> IF order = "oldest first" THEN i ELSE Len(W.fns) + 1 - i]

RECURSIVE ApplyPatchViaGcFrom(_, _, _, _)

\* if _patch_function(obj): count += 1, then the next object
GcCount(r, objects, i, count) ==
    ApplyPatchViaGcFrom(r.W, objects, i + 1, count + (IF r.changed THEN 1 ELSE 0))

\* the loop of apply_patch_via_gc over the objects from the i-th on
ApplyPatchViaGcFrom(W, objects, i, count) ==
    IF i > Len(objects) THEN [W |-> W, count |-> count]
    ELSE GcCount(PatchFunction(W, objects[i]), objects, i, count)

\* apply_patch_via_gc(): [W, count]
ApplyPatchViaGc(W, order) == ApplyPatchViaGcFrom(W, GetObjects(W, order), 1, 0)

\* SourcelessFileLoader("__main__", path).get_code("__main__"): the compiled
\* unit of the file, or a raised error where the file is missing or is no
\* valid compiled unit
GetCode(file, code) ==
    IF file = "unit" THEN [raised |-> FALSE, value |-> code]
    ELSE [raised |-> TRUE, value |-> PyNone]

\* sys.modules["__main__"] = types.ModuleType("__main__")
NewMain(W) == [W EXCEPT !.mods["__main__"] = [name |-> MainName, dict |-> <<>>, opaque |-> FALSE]]

\* the prefix of the module names apply_patch_globally skips: "patches" in the
\* engine, __name__ in the single-file runner, which runs as __main__
OwnPrefix(runner) == IF runner = "decode_pyc_single" THEN MainName ELSE Patches

\* main from the exec on, r being the rewrite of the compiled unit:
\* [W, mp, trace, outcome]
\* the try block after the exec, g being what apply_patch_globally did: the
\* scan of the heap shares its try, and is not reached when the sweep raised
AfterExec(g, order) ==
    IF g.raised
    THEN [W |-> g.W, events |-> <<Event("apply_patch_globally", 0)>>]
    ELSE [W |-> ApplyPatchViaGc(g.W, order).W,
          events |-> <<Event("apply_patch_globally", 0), Event("apply_patch_via_gc", 0)>>]

\* return 0 after the try block a
MainReturns(a, mp, tr) ==
    [W |-> a.W, mp |-> mp, trace |-> tr \o a.events, outcome |-> Ended("return", 0)]

MainExec(W, mp, tr, runner, r, bh, order) ==
    IF bh = "ok"
    THEN MainReturns(AfterExec(ApplyPatchGlobally(
                        RunBody([W EXCEPT !.next = r.next], "__main__", r.code,
                                Len(r.code.sub)),
                        OwnPrefix(runner)), order),
                     mp, tr \o <<Event("rewrite", r.code.ref), Event("exec", r.code.ref)>>)
    ELSE [W |-> RunBody([W EXCEPT !.next = r.next], "__main__", r.code, Ran(r.code, bh)),
          mp |-> mp,
          trace |-> tr \o <<Event("rewrite", r.code.ref), Event("exec", r.code.ref)>>,
          outcome |-> Ended("raise", NA)]

\* main from the load on, got being what get_code did
MainLoad(W, mp, tr, runner, got, bh, order) ==
    IF got.raised
    THEN [W |-> W, mp |-> mp, trace |-> Append(tr, Event("get_code", 0)),
          outcome |-> Ended("raise", NA)]
    ELSE IF got.value.t # "code"
    THEN [W |-> W, mp |-> mp, trace |-> Append(tr, Event("get_code", 0)),
          outcome |-> Ended("return", 1)]
    ELSE MainExec(NewMain(W), mp, Append(tr, Event("get_code", 0)), runner,
                  RewriteCode(got.value, Engine(W), W.next), bh, order)

\* main() of run_pyc_patched.py or of decode_pyc_single.py, argc being
\* len(sys.argv)
Main(W, mp, runner, argc, file, code, bh, order) ==
    IF argc < 2
    THEN [W |-> W, mp |-> mp, trace |-> <<>>, outcome |-> Ended("return", 2)]
    ELSE IF runner = "decode_pyc_single"
    THEN MainLoad(ApplyPatchGlobally(W, OwnPrefix(runner)).W,
                  InstallImportHook(mp, TRUE, 1),
                  <<Event("install_import_hook", 0), Event("apply_patch_globally", 0)>>,
                  runner, GetCode(file, code), bh, order)
    ELSE MainLoad(W, InstallImportHook(mp, TRUE, 1), <<Event("install_import_hook", 0)>>,
                  runner, GetCode(file, code), bh, order)

-----------------------------------------------------------------------------
(* Specification SpecMain: one run of either runner.  At the start           *)
(* sys.modules holds the runner as __main__, the engine package where the    *)
(* runner imports it, and possibly the telebot library; sitecustomize may    *)
(* have installed the hook already.                                          *)

Runners == {"run_pyc_patched", "decode_pyc_single"}

Resident(runner, t) ==
    [n \in {"__main__", "telebot"} \cup
           (IF runner = "run_pyc_patched" THEN {"patches.monkey_patch_tgto123"} ELSE {}) |->
       IF n = "__main__" THEN [name |-> MainName, dict |-> <<>>, opaque |-> FALSE]
       ELSE IF n = "telebot" THEN [name |-> TelebotName, dict |-> t.dict, opaque |-> FALSE]
       ELSE [name |-> EngineName, dict |-> <<>>, opaque |-> FALSE]]

RunnerOf(W) ==
    IF "patches.monkey_patch_tgto123" \in DOMAIN W.mods
    THEN "run_pyc_patched" ELSE "decode_pyc_single"

MainInit ==
    /\ vi \in Versions
    /\ nextId = FirstFresh
    /\ fns = InitFns(vi)
    /\ objs = <<>>
    /\ \E t \in Telebots, runner \in Runners :
          /\ classes = << [name |-> "TeleBot", dict |-> t.TeleBot],
                          [name |-> "K", dict |-> ScenarioDict] >>
          /\ mods = Resident(runner, t)
    /\ \E p \in MetaPaths(MaxFinders) :
          meta_path \in {p, <<MetaPathPatcher(0)>> \o p}
    /\ hookCalls = <<>>
    /\ lastSpec = <<>>
    /\ loaded = {}
    /\ handled = <<>>
    /\ trace = <<>>
    /\ outcome = <<>>
    /\ StrIdle /\ RwIdle /\ SwIdle

Argcs == {1, 2, 3}
Files == {"missing", "invalid", "unit"}

\* python <runner> [path [args]]
RunMain(argc, file, code, bh, order) ==
    /\ outcome = <<>>
    /\ handled' = << [runner |-> RunnerOf(World), argc |-> argc, file |-> file,
                      body |-> bh, order |-> order, meta_path |-> meta_path] >>
    /\ \E r \in {Main(World, meta_path, RunnerOf(World), argc, file, code, bh, order)} :
          /\ fns' = r.W.fns
          /\ classes' = r.W.classes
          /\ objs' = r.W.objs
          /\ mods' = r.W.mods
          /\ nextId' = r.W.next
          /\ meta_path' = r.mp
          /\ trace' = r.trace
          /\ outcome' = r.outcome
    /\ UNCHANGED <<vi, hookCalls, lastSpec, loaded>>
    /\ UNCHANGED <<strVars, rwVars, swVars>>

MainNext ==
    \E argc \in Argcs, file \in Files, code \in LoadUnits(vi), bh \in {"ok", "raises"},
       order \in GcOrders :
          RunMain(argc, file, code, bh, order)

SpecMain == MainInit /\ [][MainNext]_vars

\* C8 as stated: main returns 2 when no path is given, having installed and
\* executed nothing; it returns 1 whenever the compiled unit cannot be loaded,
\* having executed nothing; it returns 0 after the rewritten unit executed.
C8_ExitCodes ==
    handled # <<>> =>
       /\ handled[1].argc < 2 =>
             /\ outcome = Ended("return", 2)
             /\ trace = <<>>
             /\ meta_path = handled[1].meta_path
       /\ (handled[1].argc >= 2 /\ handled[1].file # "unit") =>
             /\ outcome = Ended("return", 1)
             /\ \A i \in 1..Len(trace) : trace[i].ev # "exec"
       /\ (handled[1].argc >= 2 /\ handled[1].file = "unit" /\ handled[1].body = "ok") =>
             /\ outcome = Ended("return", 0)
             /\ \E i \in 1..Len(trace) : trace[i].ev = "exec"

-----------------------------------------------------------------------------
(* Specification SpecGc: apply_patch_globally and apply_patch_via_gc, in any *)
(* order, in a process that holds the engine package, the program's module   *)
(* and the telebot library.                                                  *)

\* the namespace of the engine, as far as a sweep could change it
EngineDict == << <<"_transform_const", PyFunc(8)>> >>

\* what sys.modules["plugin"] may be: nothing, a module, an object with no
\* attribute dictionary, a module whose __name__ is None
PluginName == <<"p", "l", "u", "g", "i", "n">>
PluginDict == << <<"newest_id", PyInt(47)>> >>
Plugins ==
    { <<>>,
      << [name |-> PluginName, dict |-> PluginDict, opaque |-> FALSE] >>,
      << [name |-> PluginName, dict |-> <<>>, opaque |-> TRUE] >>,
      << [name |-> NotStr, dict |-> PluginDict, opaque |-> FALSE] >> }

GcInit ==
    /\ vi \in Versions
    /\ nextId = FirstFresh
    /\ fns = InitFns(vi)
    /\ objs = << [cls |-> 1, dict |-> <<>>, writable |-> TRUE] >>
    /\ \E c \in Contents, t \in Telebots, sm \in SendBindings, p \in Plugins :
          /\ classes = << [name |-> "TeleBot", dict |-> t.TeleBot],
                          [name |-> "K", dict |-> c.K] >>
          /\ mods = [n \in {"app", "telebot", "patches.monkey_patch_tgto123"}
                            \cup {"plugin" : i \in DOMAIN p} |->
                       IF n = "app" THEN [name |-> AppName, dict |-> c.dict \o sm, opaque |-> FALSE]
                       ELSE IF n = "telebot" THEN [name |-> TelebotName, dict |-> t.dict, opaque |-> FALSE]
                       ELSE IF n = "plugin" THEN p[1]
                       ELSE [name |-> EngineName, dict |-> EngineDict, opaque |-> FALSE]]
    /\ loaded = {}
    /\ handled = <<>>
    /\ trace = <<>>
    /\ outcome = <<>>
    /\ StrIdle /\ RwIdle /\ SwIdle /\ HookIdle

\* processed = apply_patch_globally()
SweepAllLoaded ==
    /\ Len(trace) < MaxScans
    /\ \E r \in {ApplyPatchGlobally(World, Patches)} :
          /\ fns' = r.W.fns
          /\ classes' = r.W.classes
          /\ objs' = r.W.objs
          /\ mods' = r.W.mods
          /\ nextId' = r.W.next
          /\ trace' = Append(trace, Event("apply_patch_globally", r.processed))
          /\ outcome' = Ended(IF r.raised THEN "raise" ELSE "return", r.processed)
    /\ UNCHANGED <<vi, loaded, handled>>
    /\ UNCHANGED <<strVars, rwVars, swVars, hookVars>>

\* count = apply_patch_via_gc()
ScanLiveHeap(order) ==
    /\ Len(trace) < MaxScans
    /\ \E r \in {ApplyPatchViaGc(World, order)} :
          /\ fns' = r.W.fns
          /\ classes' = r.W.classes
          /\ objs' = r.W.objs
          /\ mods' = r.W.mods
          /\ nextId' = r.W.next
          /\ trace' = Append(trace, Event("apply_patch_via_gc", r.count))
          /\ outcome' = Ended("return", r.count)
    /\ UNCHANGED <<vi, loaded, handled>>
    /\ UNCHANGED <<strVars, rwVars, swVars, hookVars>>

GcNext ==
    \/ SweepAllLoaded
    \/ \E order \in GcOrders : ScanLiveHeap(order)

SpecGc == GcInit /\ [][GcNext]_vars

\* the positions of the log that hold the event ev
At_(ev) == {i \in DOMAIN trace : trace[i].ev = ev}

\* the bindings d come from rewritten constants only
FromRewritten(d) ==
    \A i \in DOMAIN d :
        /\ d[i][2] # PyInt(47)
        /\ d[i][2].t = "str" => TransformString(d[i][2].s) = d[i][2].s

\* C15: Startup ordering.  In every run of main that reaches the exec, the
\* import hook was installed before it and is the first finder of
\* sys.meta_path, so that an import made by the target asks it first; the
\* unit executed is the one the rewrite returned just before, and what the
\* target bound comes from rewritten constants; and every global sweep after
\* the load and every heap scan come after the exec, in a run whose target
\* completed.
C15_StartupOrdering ==
    \A k \in At_("exec") :
        /\ \E i \in At_("install_import_hook") : i < k
        /\ FirstIsPatcher(meta_path)
        /\ k > 1 /\ trace[k - 1] = Event("rewrite", trace[k].ref)
        /\ FromRewritten(mods["__main__"].dict)
        /\ \A j \in At_("apply_patch_via_gc") : j > k /\ outcome = Ended("return", 0)
        /\ \A j \in At_("apply_patch_globally") :
               \/ j > k /\ outcome = Ended("return", 0)
               \/ \A g \in At_("get_code") : j < g

\* C15 witness: a run of the single-file runner that swept before the load,
\* executed a unit holding 47 to the end, then swept and scanned
C15_Witness ==
    /\ handled # <<>>
    /\ handled[1].runner = "decode_pyc_single"
    /\ outcome = Ended("return", 0)
    /\ Get(mods["__main__"].dict, "newest_id", Absent) = PyInt(8)
    /\ \E k \in At_("exec") : \E j \in At_("apply_patch_via_gc") : j > k
    /\ \E k \in At_("exec") : \E j \in At_("apply_patch_globally") : j < k

\* r2 is a further _patch_function(fn) after the one that gave r1
FurtherPatchIdle(r1, r2, fid) == ~r2.changed /\ r2.W.fns[fid] = r1.W.fns[fid]

PatchedTwice(r1, fid) == FurtherPatchIdle(r1, PatchFunction(r1.W, fid), fid)

\* this step is apply_patch on a namespace an earlier apply_patch returned from
SweptAgain == \E m \in ModuleNames : Swept(m) /\ sweeps' = Append(sweeps, m)

\* C14: Repeated sweeps are safe.  For every function alive, a further
\* _patch_function after one _patch_function returns False and leaves the
\* compiled body, the defaults and the keyword-only defaults the objects they
\* were; and an apply_patch on a namespace already swept changes no binding,
\* no function, no class, no instance and no wrapper.
C14_RepeatedSweepsSafe ==
    /\ [](\A fid \in DOMAIN fns : PatchedTwice(PatchFunction(World, fid), fid))
    /\ [][SweptAgain => UNCHANGED <<fns, classes, objs, mods>>]_vars

\* C14 witness: a namespace swept twice, the first sweep having changed a
\* function whose further patch changes nothing
C14_Witness ==
    /\ Cardinality({i \in DOMAIN sweeps : sweeps[i] = "app"}) >= 2
    /\ ~mods["app"].opaque
    /\ \E fid \in DOMAIN fns : /\ fid <= Len(InitFns(vi))
                               /\ fns[fid] # InitFns(vi)[fid]
                               /\ ~PatchFunction(World, fid).changed

\* C13 as stated: a call of apply_patch does not raise, whatever step failed,
\* and each of its six steps was begun.
C13_StepsIndependent ==
    sweeps # <<>> =>
        /\ returned # TypeError
        /\ {trace[i].ref : i \in DOMAIN trace} = 1..6

\* the bindings d of a namespace are those apply_patch leaves: newest_id is 8
\* and every string is a fixed point of the rules
SweptNamespace(d) ==
    \A i \in DOMAIN d :
        /\ d[i][1] = "newest_id" => d[i][2] = PyInt(8)
        /\ d[i][2].t = "str" => TransformString(d[i][2].s) = d[i][2].s

\* the resident namespaces that can be inspected and are not the engine's
Inspectable ==
    {n \in DOMAIN mods : /\ ~mods[n].opaque
                         /\ mods[n].name # NotStr
                         /\ ~StartsWith(mods[n].name, Patches)}

LastEvent == IF trace = <<>> THEN "" ELSE trace[Len(trace)].ev

\* C12 as stated: apply_patch_globally never raises, and whatever namespaces
\* it had to skip, every other resident namespace that is not the engine's
\* was swept by the call.
C12_ToleratesBadNamespaces ==
    LastEvent = "apply_patch_globally" =>
        /\ outcome[1].kind = "return"
        /\ \A n \in Inspectable : SweptNamespace(mods[n].dict)

\* C11 as stated: whatever sweeps and scans were made, _transform_const is the
\* function the engine defined, it still maps the integer 47 to 8 and still
\* applies the string rules.
C11_NoSelfPatching ==
    /\ Engine(World) = TransformConstFn(vi)
    /\ TransformConstOf(Engine(World), PyInt(47)) = PyInt(8)
    /\ TransformConstOf(Engine(World), PyStr(At \o OldId)) = PyStr(At \o NewId)

-----------------------------------------------------------------------------
(* Specification SpecPatch: _patch_function called on one function, whose    *)
(* compiled body, defaults and keyword-only defaults are drawn from small    *)
(* menus; the engine's _transform_const is the other function alive.         *)

PatchCodes(v) ==
    { UserCode(31, <<PyNone>>, v),
      UserCode(32, <<PyNone, PyInt(47)>>, v),
      UserCode(33, <<PyStr(OldId), UserCode(34, <<PyInt(47)>>, v)>>, v) }

DefaultPools == { <<>>, <<PyStr(OldId)>>, <<PyFloat(47)>>, <<PyRaiser>>, <<PyInt(47), PyRaiser>> }
KwPools == { <<>>, <<PyInt(47)>>, <<PyRaiser>> }

PatchInit ==
    /\ vi \in Versions
    /\ nextId = FirstFresh
    /\ \E c \in PatchCodes(vi), d \in DefaultPools, k \in KwPools :
          fns = << UserFn(c, d, k), TransformConstFn(vi) >>
    /\ classes = <<>>
    /\ objs = <<>>
    /\ mods = <<>>
    /\ loaded = {}
    /\ handled = <<>>
    /\ trace = <<>>
    /\ outcome = <<>>
    /\ StrIdle /\ RwIdle /\ SwIdle /\ HookIdle

\* changed = _patch_function(fn), fn being the first function
PatchCallable ==
    /\ Len(handled) < MaxPatches
    /\ \E r \in {PatchFunction(World, 1)} :
          /\ fns' = r.W.fns
          /\ nextId' = r.W.next
          /\ handled' = Append(handled, [before |-> fns[1], after |-> r.W.fns[1],
                                         changed |-> r.changed])
    /\ UNCHANGED <<vi, classes, objs, mods, loaded, trace, outcome>>
    /\ UNCHANGED <<strVars, rwVars, swVars, hookVars>>

PatchNext == PatchCallable

SpecPatch == PatchInit /\ [][PatchNext]_vars

\* C17 as stated: when main returned 0, the namespace of the target, which is
\* sys.modules["__main__"], is as apply_patch leaves a namespace, in either
\* runner.
C17_TargetSwept ==
    (handled # <<>> /\ outcome = Ended("return", 0)) =>
        SweptNamespace(mods["__main__"].dict)

\* C16 as stated: a call of _patch_function that returned False left the
\* function's compiled body, defaults and keyword-only defaults what they
\* were before the call.
C16_FalseMeansUnchanged ==
    \A i \in DOMAIN handled : ~handled[i].changed => handled[i].after = handled[i].before

-----------------------------------------------------------------------------
(* Specification SpecStr: _transform_string on bounded inputs *)

Chunks == {UrlPrefix, Slash, At, Tgto, Update, OldId, NewId, Other}

RECURSIVE Concats(_)
Concats(n) ==
    IF n = 0 THEN {<<>>}
    ELSE LET shorter == Concats(n - 1)
         IN shorter \cup {s \o c : s \in shorter, c \in Chunks}

InputStrings == Concats(MaxChunks)

StrInit ==
    /\ value \in InputStrings
    /\ result = <<>>
    /\ spc = "in"
    /\ RwIdle /\ HostIdle /\ HeapIdle /\ SwIdle /\ HookIdle /\ RunIdle

\* one call result = _transform_string(value)
TransformStr ==
    /\ spc = "in"
    /\ result' = TransformString(value)
    /\ spc' = "out"
    /\ UNCHANGED value
    /\ UNCHANGED <<rwVars, hostVars, heapVars, swVars, hookVars, runVars>>

\* the caller feeds the result back in (a later sweep sees the rewritten string)
TransformStrAgain ==
    /\ spc = "out"
    /\ value' = result
    /\ result' = TransformString(result)
    /\ spc' = "again"
    /\ UNCHANGED <<rwVars, hostVars, heapVars, swVars, hookVars, runVars>>

StrNext == TransformStr \/ TransformStrAgain

SpecStr == StrInit /\ [][StrNext]_vars

-----------------------------------------------------------------------------
\* C5: _transform_string(s) is the left fold of the four rules in declared
\* order, each replacing every non-overlapping occurrence in the current value;
\* a string holding a URL form and a bare identifier has both replaced.
FoldDeclared(s) ==
    Replace(
      Replace(
        Replace(
          Replace(s, UrlPrefix \o OldId \o Slash, UrlPrefix \o NewId \o Slash),
          UrlPrefix \o OldId, UrlPrefix \o NewId),
        At \o OldId, At \o NewId),
      OldId, NewId)

HasUrlAndBare(s) ==
    \E i \in 1..Len(s) :
        /\ Contains(SubSeq(s, 1, i), UrlPrefix \o OldId)
        /\ Contains(SubSeq(s, i + 1, Len(s)), OldId)

C5_RuleOrdering ==
    spc = "out" =>
        /\ result = FoldDeclared(value)
        /\ HasUrlAndBare(value) =>
              /\ ~Contains(result, OldId)
              /\ Contains(result, UrlPrefix \o NewId)

C5_Witness ==
    /\ spc = "out"
    /\ HasUrlAndBare(value)
    /\ value # result

\* the loop of _transform_string over the rules in another order
RECURSIVE TransformUnder(_, _, _)
TransformUnder(rules, v, i) ==
    IF i > Len(rules) THEN v
    ELSE TransformUnder(rules,
                        IF Contains(v, rules[i][1]) THEN Replace(v, rules[i][1], rules[i][2]) ELSE v,
                        i + 1)

\* the orders the declared rules can be put in
RuleOrders ==
    { [i \in DOMAIN REPLACEMENTS |-> REPLACEMENTS[p[i]]] :
        p \in {q \in [DOMAIN REPLACEMENTS -> DOMAIN REPLACEMENTS] :
                 \A i, j \in DOMAIN REPLACEMENTS : q[i] = q[j] => i = j} }

\* C18: The string rules collapse to the last one.  The result of
\* _transform_string(s) is s with every occurrence of "tgto123update"
\* replaced by "TG123Cloud", it is the result under every order of the four
\* rules, and it never contains "tgto123update".
C18_CollapseToBare ==
    spc # "in" =>
        /\ result = Replace(value, OldId, NewId)
        /\ \A rules \in RuleOrders : TransformUnder(rules, value, 1) = result
        /\ ~Contains(result, OldId)

\* C18 witness: a string in which a rule longer than the bare one matches an
\* identifier that stands next to half of another, replaced
C18_Witness ==
    /\ spc = "out"
    /\ Contains(value, UrlPrefix \o OldId) \/ Contains(value, At \o OldId)
    /\ Contains(value, OldId \o Update) \/ Contains(value, Tgto \o At \o OldId)
    /\ result # value
    /\ Contains(result, NewId)

====
